---- MODULE Spec2Model ----
(***************************************************************************)
(* The bidding and order-phase subsystem of the marketplace: the in-memory *)
(* stores of server.js (requirements), routes/bidding.js, routes/orders.js *)
(* and the request handlers that mutate them.  One action per handler, one *)
(* step of the model per request: requests are served one at a time, and   *)
(* the await on payload validation in the async handlers (submitBid,       *)
(* updateBid, createRequirement, updateRequirement, updateOrderPhase) is   *)
(* not a step boundary in the specifications below.  <handler>Response is  *)
(* the response the handler sends, the action <handler> its effect on the  *)
(* stores.  Money is in cents, instants are ticks of a logical clock,      *)
(* uuidv4() is a fresh identifier.  The createdAt/updatedAt/startedAt/     *)
(* completedAt stamps are not modelled.                                    *)
(***************************************************************************)
EXTENDS Integers, Sequences, FiniteSets, TLC

(* ------------------------------ bounds -------------------------------- *)
MaxReqs == 1
MaxBids == 2
MaxOrders == 2
MaxTime == 2
MaxDocs == 1

(* ---------------------------- principals ------------------------------ *)
\* The principals the auth middleware hands to the handlers (req.user):
\* registered accounts, each with one role.
Exporters == {"exp-1", "exp-2"}
Importers == {"imp-1", "imp-2"}
\* The user store: the two seeded test accounts and the registered ones.
users == {"test-exporter-1", "test-importer-1"} \cup Exporters \cup Importers
role(u) == IF u \in Exporters \cup {"test-exporter-1"} THEN "exporter" ELSE "importer"

\* JavaScript's undefined for a numeric field an object does not carry.
Undefined == -1

\* The three stores, the count of requirements made, the clock, the
\* handlers that wait at an await, each with what it read before waiting,
\* the user accounts, the sessions kept by the auth routes and the tokens
\* the auth middleware holds as active.
VARIABLES requirements, bids, orders, nextReq, now, suspended,
          accounts, sessions, activeSessions

vars ==
  <<requirements, bids, orders, nextReq, now, suspended, accounts, sessions, activeSessions>>

\* What the handlers of the marketplace leave alone.
auth == <<accounts, sessions, activeSessions>>

(* ------------------------------ helpers ------------------------------- *)
\* uuidv4(): an identifier no other record carries; express-validator's
\* isUUID() accepts these and no seeded identifier.
uuidv4(kind, n) == kind \o "-uuid-" \o ToString(n)
RequirementIds == {uuidv4("req", n) : n \in 1..MaxReqs} \cup {"req-001", "req-002"}
BidIds == {uuidv4("bid", n) : n \in 1..MaxBids} \cup {"bid-001", "bid-002"}
OrderIds == {uuidv4("ord", n) : n \in 1..MaxOrders}
isUUID(id) == id \notin {"req-001", "req-002", "bid-001", "bid-002"}

\* Array.prototype.findIndex: the first index whose element satisfies P, 0 for -1.
findIndex(arr, P(_)) ==
  IF \E i \in 1..Len(arr) : P(arr[i])
  THEN CHOOSE i \in 1..Len(arr) : P(arr[i]) /\ \A j \in 1..(i - 1) : ~P(arr[j])
  ELSE 0

\* res.status(code).json(body): the response a handler returns.  It is a
\* function of the stores and of the request; a request answered with an
\* error status leaves every store as it was.
Reply(code, body) == [status |-> code, body |-> body]

\* requireRole(r) of the auth middleware, in front of a handler.
requireRole(u, r) == role(u) = r

(* --------------------------- numbers (binary64) ----------------------- *)
\* A JavaScript number is an IEEE 754 binary64, and `*` rounds its exact
\* result to the nearest one (ties to even).  A positive finite number is
\* the record [m, e] with the value m * 2^e, where 2^52 <= m < 2^53 and m
\* is written in four limbs of 15 bits, least significant first.  The
\* amounts and rates of the program are far from the subnormal and the
\* overflow range, which are left out.
Radix == 2 ^ 15

nat(n) == IF n = 0 THEN <<>> ELSE IF n < Radix THEN <<n>> ELSE <<n % Radix, n \div Radix>>

RECURSIVE bigAdd(_, _, _)
bigAdd(a, b, carry) ==
  IF a = <<>> /\ b = <<>>
  THEN IF carry = 0 THEN <<>> ELSE <<carry>>
  ELSE LET x == IF a = <<>> THEN 0 ELSE Head(a)
           y == IF b = <<>> THEN 0 ELSE Head(b)
           s == x + y + carry
       IN  <<s % Radix>> \o bigAdd(IF a = <<>> THEN a ELSE Tail(a),
                                   IF b = <<>> THEN b ELSE Tail(b), s \div Radix)

RECURSIVE bigMulSmall(_, _, _)
bigMulSmall(a, k, carry) ==
  IF a = <<>>
  THEN IF carry = 0 THEN <<>> ELSE <<carry>>
  ELSE LET s == Head(a) * k + carry
       IN  <<s % Radix>> \o bigMulSmall(Tail(a), k, s \div Radix)

RECURSIVE bigMul(_, _)
bigMul(a, b) ==
  IF b = <<>> THEN <<>>
  ELSE bigAdd(bigMulSmall(a, Head(b), 0), <<0>> \o bigMul(a, Tail(b)), 0)

\* quotient and remainder of a by a small divisor d.
RECURSIVE bigDivMod(_, _)
bigDivMod(a, d) ==
  IF a = <<>> THEN [q |-> <<>>, r |-> 0]
  ELSE LET hi  == bigDivMod(Tail(a), d)
           cur == hi.r * Radix + Head(a)
       IN  [q |-> <<cur \div d>> \o hi.q, r |-> cur % d]

limbLength(x) == IF x = 0 THEN 0 ELSE CHOOSE n \in 1..15 : 2 ^ (n - 1) <= x /\ x < 2 ^ n

RECURSIVE bitLength(_)
bitLength(a) ==
  IF a = <<>> THEN 0
  ELSE LET h == bitLength(Tail(a))
       IN  IF h > 0 THEN h + 15 ELSE limbLength(Head(a))

bit(a, i) == IF i \div 15 + 1 > Len(a) THEN 0 ELSE (a[i \div 15 + 1] \div 2 ^ (i % 15)) % 2

\* the bits of a below bit i are all zero.
lowZero(a, i) ==
  /\ \A j \in 1..(i \div 15) : j > Len(a) \/ a[j] = 0
  /\ i \div 15 + 1 > Len(a) \/ a[i \div 15 + 1] % 2 ^ (i % 15) = 0

shiftLeft(a, k) == bigMulSmall([j \in 1..(k \div 15) |-> 0] \o a, 2 ^ (k % 15), 0)

shiftRight(a, k) ==
  IF k \div 15 >= Len(a) THEN <<>>
  ELSE bigDivMod(SubSeq(a, k \div 15 + 1, Len(a)), 2 ^ (k % 15)).q

mantissa(a) == [j \in 1..4 |-> IF j <= Len(a) THEN a[j] ELSE 0]

\* the binary64 nearest to a * 2^e, ties to even; zero has the mantissa 0.
roundToNearest(a, e) ==
  LET n == bitLength(a)
  IN  IF n = 0 THEN [m |-> mantissa(<<>>), e |-> 0]
      ELSE IF n <= 53
      THEN [m |-> mantissa(shiftLeft(a, 53 - n)), e |-> e - (53 - n)]
      ELSE LET k  == n - 53
               q  == shiftRight(a, k)
               up == bit(a, k - 1) = 1 /\ (~lowZero(a, k - 1) \/ bit(a, k) = 1)
               r  == IF up THEN bigAdd(q, <<1>>, 0) ELSE q
           IN  IF bitLength(r) > 53
               THEN [m |-> mantissa(shiftRight(r, 1)), e |-> e + k + 1]
               ELSE [m |-> mantissa(r), e |-> e + k]

\* the number a decimal literal num/den denotes: the quotient
\* is taken to 70 binary places and one more bit tells whether anything
\* was left over.
number(num, den) ==
  LET d == bigDivMod(shiftLeft(nat(num), 70), den)
  IN  roundToNearest(bigAdd(bigMulSmall(d.q, 2, 0), IF d.r = 0 THEN <<>> ELSE <<1>>, 0), -71)

\* x * y
times(x, y) == roundToNearest(bigMul(x.m, y.m), x.e + y.e)

\* x < y
lessThan(x, y) ==
  IF y.m = mantissa(<<>>) THEN FALSE
  ELSE IF x.m = mantissa(<<>>) THEN TRUE
  ELSE \/ x.e < y.e
       \/ /\ x.e = y.e
          /\ \E j \in 1..4 : x.m[j] < y.m[j] /\ \A h \in (j + 1)..4 : x.m[h] = y.m[h]

(* --------------------------- currency, time --------------------------- *)
\* The stores keep an amount as its count of hundredths (4.00 is 400); the
\* number the program computes with is the one its decimal denotes.  The
\* numbers of the amounts that the seed data and the requests below carry
\* are computed once.
Amounts == {24, 30, 33, 39, 40, 41, 44, 280, 300, 400, 425, 500, 45000}
amounts == [cents \in Amounts |-> number(cents, 100)]
amount(cents) == IF cents \in Amounts THEN amounts[cents] ELSE number(cents, 100)

Currencies == {"USD", "EUR", "INR", "GBP", "JPY", "CNY"}
exchangeRates ==
  [currency \in Currencies |->
     CASE currency = "USD" -> number(1, 1)
       [] currency = "EUR" -> number(11, 10)
       [] currency = "INR" -> number(12, 1000)
       [] currency = "GBP" -> number(125, 100)
       [] currency = "JPY" -> number(67, 10000)
       [] currency = "CNY" -> number(14, 100)]

\* exchangeRates[currency] || 1
rate(currency) == IF currency \in Currencies THEN exchangeRates[currency] ELSE number(1, 1)

\* price * rate, computed once for each of the amounts above.
products == [cents \in Amounts, currency \in Currencies |-> times(amounts[cents], exchangeRates[currency])]
convertToUSD(price, currency) ==
  IF currency \in Currencies /\ \E cents \in Amounts : amounts[cents] = price
  THEN products[CHOOSE cents \in Amounts : amounts[cents] = price, currency]
  ELSE times(price, rate(currency))

multipliers(unit) ==
  CASE unit = "days" -> 1
    [] unit = "weeks" -> 7
    [] unit = "months" -> 30
    [] OTHER -> 1

convertToDays(time, unit) == time * multipliers(unit)

(* ------------------------------- stores ------------------------------- *)
seedRequirements ==
  << [id |-> "req-001", importerId |-> "test-importer-1", targetPrice |-> 400,
      currency |-> "USD", bidDeadline |-> Undefined, status |-> "open",
      bidCount |-> Undefined, awardedBidId |-> ""],
     [id |-> "req-002", importerId |-> "test-importer-1", targetPrice |-> 280,
      currency |-> "USD", bidDeadline |-> Undefined, status |-> "open",
      bidCount |-> Undefined, awardedBidId |-> ""] >>

seedBids ==
  << [id |-> "bid-001", requirementId |-> "req-001", exporterId |-> "test-exporter-1",
      price |-> 425, currency |-> "USD", deliveryTime |-> Undefined,
      deliveryTimeUnit |-> "", status |-> "submitted"],
     [id |-> "bid-002", requirementId |-> "req-002", exporterId |-> "test-exporter-1",
      price |-> 300, currency |-> "USD", deliveryTime |-> Undefined,
      deliveryTimeUnit |-> "", status |-> "submitted"] >>

Init ==
  /\ requirements = seedRequirements
  /\ bids = seedBids
  /\ orders = <<>>
  /\ nextReq = 1
  /\ now = 0
  /\ suspended = <<>>
  /\ accounts = users
  /\ sessions = <<>>
  /\ activeSessions = {}

\* Array.prototype.find on the requirement store, by id (the caller has
\* checked that one exists).
requirementById(id) == requirements[findIndex(requirements, LAMBDA r : r.id = id)]
hasRequirement(id) == \E i \in 1..Len(requirements) : requirements[i].id = id

\* now > new Date(requirement.bidDeadline); an undefined deadline is an
\* Invalid Date, which compares false.
deadlinePassed(r) == r.bidDeadline # Undefined /\ now > r.bidDeadline

\* The requirement store with the requirement id replaced by Set of it.
touchRequirement(id, Set(_)) ==
  [i \in 1..Len(requirements) |->
     IF i = findIndex(requirements, LAMBDA r : r.id = id)
     THEN Set(requirements[i])
     ELSE requirements[i]]

(* -------------------------- requirement handlers ---------------------- *)
\* Request bodies of POST /requirements: one that requirementValidation
\* rejects, and well-formed ones.
InvalidRequirementBody ==
  [valid |-> FALSE, targetPrice |-> 0, currency |-> "", bidDeadline |-> 0,
   deliveryDeadline |-> 0]
RequirementBodies ==
  {InvalidRequirementBody} \cup
  [valid : {TRUE}, targetPrice : {400}, currency : {"USD"},
   bidDeadline : {0, 1}, deliveryDeadline : {1, MaxTime + 1}]

createRequirementResponse(u, b) ==
  IF ~b.valid THEN Reply(400, "validation")
  ELSE IF b.bidDeadline <= now THEN Reply(400, "Bid deadline must be in the future")
  ELSE IF b.deliveryDeadline <= b.bidDeadline
  THEN Reply(400, "Delivery deadline must be after bid deadline")
  ELSE Reply(201, "Requirement created successfully")

\* targetPrice ? parseFloat(targetPrice) : null -- 0 is the absent target.
createRequirementHandler(u, b) ==
  /\ nextReq <= MaxReqs
  /\ UNCHANGED <<bids, orders, now, suspended, auth>>
  /\ IF createRequirementResponse(u, b).status = 201
     THEN /\ requirements' = Append(requirements,
               [id |-> uuidv4("req", nextReq), importerId |-> u,
                targetPrice |-> b.targetPrice, currency |-> b.currency,
                bidDeadline |-> b.bidDeadline, status |-> "active",
                bidCount |-> 0, awardedBidId |-> ""])
          /\ nextReq' = nextReq + 1
     ELSE UNCHANGED <<requirements, nextReq>>

createRequirement(u, b) == requireRole(u, "importer") /\ createRequirementHandler(u, b)

\* Request bodies of PUT /requirements/:id.  status is not validated: any
\* string of the body is stored; "" and 0 stand for an absent field.
InvalidRequirementUpdate ==
  [valid |-> FALSE, status |-> "", bidDeadline |-> 0, deliveryDeadline |-> 0,
   targetPrice |-> 0, currency |-> ""]
RequirementUpdates ==
  {InvalidRequirementUpdate} \cup
  [valid : {TRUE}, status : {"active"}, bidDeadline : {0},
   deliveryDeadline : {0}, targetPrice : {0}, currency : {""}] \cup
  [valid : {TRUE}, status : {""}, bidDeadline : {1}, deliveryDeadline : {0, 1},
   targetPrice : {0}, currency : {""}]

ownRequirementIndex(u, id) ==
  findIndex(requirements, LAMBDA r : r.id = id /\ r.importerId = u)

\* updateRequirement without its closed-or-awarded check.
updateRequirementResponse_noStatusCheck(u, id, b) ==
  IF ownRequirementIndex(u, id) = 0
  THEN Reply(404, "Requirement not found or unauthorized")
  ELSE IF ~b.valid THEN Reply(400, "validation")
  ELSE IF b.bidDeadline # 0 /\ b.bidDeadline <= now
  THEN Reply(400, "Bid deadline must be in the future")
  ELSE IF b.deliveryDeadline # 0 /\ b.bidDeadline # 0 /\ b.deliveryDeadline <= b.bidDeadline
  THEN Reply(400, "Delivery deadline must be after bid deadline")
  ELSE Reply(200, "Requirement updated successfully")

updateRequirementResponse(u, id, b) ==
  IF ownRequirementIndex(u, id) = 0
  THEN Reply(404, "Requirement not found or unauthorized")
  ELSE IF requirements[ownRequirementIndex(u, id)].status \in {"closed", "awarded"}
  THEN Reply(400, "Cannot update closed or awarded requirement")
  ELSE IF ~b.valid THEN Reply(400, "validation")
  ELSE IF b.bidDeadline # 0 /\ b.bidDeadline <= now
  THEN Reply(400, "Bid deadline must be in the future")
  ELSE IF b.deliveryDeadline # 0 /\ b.bidDeadline # 0 /\ b.deliveryDeadline <= b.bidDeadline
  THEN Reply(400, "Delivery deadline must be after bid deadline")
  ELSE Reply(200, "Requirement updated successfully")

\* { ...requirement, targetPrice: ..., status: status || requirement.status }
updatedRequirement(requirement, b) ==
  [requirement EXCEPT
     !.targetPrice = IF b.targetPrice # 0 THEN b.targetPrice ELSE @,
     !.currency = IF b.currency # "" THEN b.currency ELSE @,
     !.bidDeadline = IF b.bidDeadline # 0 THEN b.bidDeadline ELSE @,
     !.status = IF b.status # "" THEN b.status ELSE @]

updateRequirement(u, id, b) ==
  /\ requireRole(u, "importer")
  /\ UNCHANGED <<bids, orders, nextReq, now, suspended, auth>>
  /\ IF updateRequirementResponse(u, id, b).status = 200
     THEN requirements' =
            [requirements EXCEPT ![ownRequirementIndex(u, id)] = updatedRequirement(@, b)]
     ELSE UNCHANGED requirements

\* Array.prototype.splice(index, 1)
splice(arr, index) == [i \in 1..(Len(arr) - 1) |-> IF i < index THEN arr[i] ELSE arr[i + 1]]

\* requirement.bidCount > 0 is false for an undefined bidCount.
deleteRequirementResponse(u, id) ==
  IF ownRequirementIndex(u, id) = 0
  THEN Reply(404, "Requirement not found or unauthorized")
  ELSE IF requirements[ownRequirementIndex(u, id)].bidCount > 0
  THEN Reply(400, "Cannot delete requirement with existing bids")
  ELSE Reply(200, "Requirement deleted successfully")

deleteRequirement(u, id) ==
  /\ requireRole(u, "importer")
  /\ UNCHANGED <<bids, orders, nextReq, now, suspended, auth>>
  /\ IF deleteRequirementResponse(u, id).status = 200
     THEN requirements' = splice(requirements, ownRequirementIndex(u, id))
     ELSE UNCHANGED requirements

closeRequirementResponse(u, id) ==
  IF ownRequirementIndex(u, id) = 0
  THEN Reply(404, "Requirement not found or unauthorized")
  ELSE Reply(200, "Requirement closed successfully")

closeRequirementHandler(u, id) ==
  /\ UNCHANGED <<bids, orders, nextReq, now, suspended, auth>>
  /\ IF closeRequirementResponse(u, id).status = 200
     THEN requirements' = [requirements EXCEPT ![ownRequirementIndex(u, id)].status = "closed"]
     ELSE UNCHANGED requirements

closeRequirement(u, id) == requireRole(u, "importer") /\ closeRequirementHandler(u, id)

(* ------------------------------- ranking ------------------------------ *)
\* getExporterReliability adds Math.random() * 5 to the score of a known
\* exporter, so the sign of bReliability - aReliability is any of -1, 0, 1
\* at each comparison; tie gives it for each pair of exporters.
TiePairs == {p \in users \X users : role(p[1]) = "exporter" /\ role(p[2]) = "exporter" /\ p[1] # p[2]}
Ties == [TiePairs -> {-1, 0, 1}]

\* The comparator of rankBids on price alone.
compare_priceOnly(a, b, tie) ==
  LET aPriceUSD == convertToUSD(amount(a.price), a.currency)
      bPriceUSD == convertToUSD(amount(b.price), b.currency)
  IN  IF aPriceUSD # bPriceUSD
      THEN IF lessThan(aPriceUSD, bPriceUSD) THEN -1 ELSE 1
      ELSE tie[<<a.exporterId, b.exporterId>>]

\* The comparator of rankBids: the sign of what it returns.
compare(a, b, tie) ==
  LET aPriceUSD == convertToUSD(amount(a.price), a.currency)
      bPriceUSD == convertToUSD(amount(b.price), b.currency)
      aDeliveryDays == convertToDays(a.deliveryTime, a.deliveryTimeUnit)
      bDeliveryDays == convertToDays(b.deliveryTime, b.deliveryTimeUnit)
  IN  IF aPriceUSD # bPriceUSD
      THEN IF lessThan(aPriceUSD, bPriceUSD) THEN -1 ELSE 1
      ELSE IF aDeliveryDays # bDeliveryDays
      THEN IF aDeliveryDays < bDeliveryDays THEN -1 ELSE 1
      ELSE tie[<<a.exporterId, b.exporterId>>]

\* Array.prototype.sort on a short array: each element in turn is moved
\* left past the elements that compare greater than it.
RECURSIVE insert(_, _, _)
insert(sorted, x, tie) ==
  IF sorted = <<>> THEN <<x>>
  ELSE IF compare(sorted[Len(sorted)], x, tie) > 0
  THEN Append(insert(SubSeq(sorted, 1, Len(sorted) - 1), x, tie), sorted[Len(sorted)])
  ELSE Append(sorted, x)

RECURSIVE sort(_, _)
sort(arr, tie) ==
  IF arr = <<>> THEN <<>>
  ELSE insert(sort(SubSeq(arr, 1, Len(arr) - 1), tie), arr[Len(arr)], tie)

rankBids(input, tie) == sort(input, tie)

\* bids.filter(b => b.requirementId === requirementId && b.status === 'active')
RECURSIVE filterActive(_, _)
filterActive(arr, requirementId) ==
  IF arr = <<>> THEN <<>>
  ELSE IF Head(arr).requirementId = requirementId /\ Head(arr).status = "active"
  THEN <<Head(arr)>> \o filterActive(Tail(arr), requirementId)
  ELSE filterActive(Tail(arr), requirementId)

\* What an exporter sees of a bid that is not theirs.
basicInfo(bid) ==
  [id |-> bid.id, exporterId |-> bid.exporterId, price |-> bid.price,
   currency |-> bid.currency, deliveryTime |-> bid.deliveryTime,
   deliveryTimeUnit |-> bid.deliveryTimeUnit]

\* The request of a caller without req.user: the route of this handler has
\* no authenticateToken in front.
NoUser == "undefined"

\* The map over the active bids that an exporter's request goes through: the
\* caller's own bid whole, basic info of every other.
shownTo(u, requirementBids) ==
  [i \in 1..Len(requirementBids) |->
     IF role(u) = "exporter" /\ requirementBids[i].exporterId # u
     THEN basicInfo(requirementBids[i]) ELSE requirementBids[i]]

\* GET /bids/requirement/:requirementId with includeRanking left at true.
getBidsForRequirementResponse(u, requirementId, tie) ==
  IF ~hasRequirement(requirementId) THEN Reply(404, "Requirement not found")
  ELSE IF u = NoUser THEN Reply(500, "Internal server error")
  ELSE IF role(u) = "importer" /\ requirementById(requirementId).importerId # u
  THEN Reply(403, "Unauthorized to view these bids")
  ELSE LET requirementBids == filterActive(bids, requirementId)
           shown == shownTo(u, requirementBids)
           ranked == rankBids(shown, tie)
       IN  Reply(200, [i \in 1..Len(ranked) |->
                         [bid |-> ranked[i], rank |-> i,
                          priceUSD |-> convertToUSD(amount(ranked[i].price), ranked[i].currency),
                          deliveryDays |-> convertToDays(ranked[i].deliveryTime,
                                                         ranked[i].deliveryTimeUnit)]])

\* The handler writes to no store.
getBidsForRequirement(u, requirementId) == UNCHANGED vars

(* ---------------------------- bid integrity --------------------------- *)
\* targetPriceUSD * 0.1, computed once for each of the amounts above.
tenths ==
  [cents \in Amounts, currency \in Currencies |-> times(products[cents, currency], number(1, 10))]
tenthOfTarget(requirement) ==
  IF requirement.targetPrice \in Amounts /\ requirement.currency \in Currencies
  THEN tenths[requirement.targetPrice, requirement.currency]
  ELSE times(convertToUSD(amount(requirement.targetPrice), requirement.currency), number(1, 10))

\* The suspicious-price rule: bidPriceUSD < targetPriceUSD * 0.1.
suspiciouslyLow(newBid) ==
  /\ hasRequirement(newBid.requirementId)
  /\ requirementById(newBid.requirementId).targetPrice # 0
  /\ lessThan(convertToUSD(amount(newBid.price), newBid.currency),
              tenthOfTarget(requirementById(newBid.requirementId)))

\* validateBidIntegrity without its duplicate rule.
validateBidIntegrity_noDuplicateRule(newBid, existingBids) ==
  IF suspiciouslyLow(newBid)
  THEN [valid |-> FALSE, reason |-> "Bid price is suspiciously low"]
  ELSE [valid |-> TRUE, reason |-> ""]

validateBidIntegrity(newBid, existingBids) ==
  IF \E i \in 1..Len(existingBids) :
        /\ existingBids[i].exporterId = newBid.exporterId
        /\ existingBids[i].requirementId = newBid.requirementId
  THEN [valid |-> FALSE, reason |-> "Exporter has already submitted a bid for this requirement"]
  ELSE IF suspiciouslyLow(newBid)
  THEN [valid |-> FALSE, reason |-> "Bid price is suspiciously low"]
  ELSE [valid |-> TRUE, reason |-> ""]

(* ------------------------------ bid handlers -------------------------- *)
\* Request bodies of POST /bids: one that bidValidation rejects, and
\* well-formed ones (isUUID(requirementId) is part of bidValidation).
InvalidBidBody ==
  [valid |-> FALSE, requirementId |-> "", price |-> 0, currency |-> "",
   deliveryTime |-> 0, deliveryTimeUnit |-> ""]
BidBodies ==
  {InvalidBidBody} \cup
  [valid : {TRUE}, requirementId : RequirementIds, price : {30, 500},
   currency : {"USD"}, deliveryTime : {2}, deliveryTimeUnit : {"weeks"}]

\* Request bodies of PUT /bids/:id: bidValidation again, so a well-formed
\* body names some UUID as requirementId, which the handler does not read.
BidUpdates ==
  {InvalidBidBody} \cup
  [valid : {TRUE}, requirementId : {uuidv4("req", 1)}, price : {30},
   currency : {"USD"}, deliveryTime : {2}, deliveryTimeUnit : {"weeks"}]

\* (bidCount || 0) + 1
bidCountAfterSubmit(bidCount) == (IF bidCount = Undefined THEN 0 ELSE bidCount) + 1

\* withdrawBid leaving the count as it is.
bidCountAfterWithdraw_unchanged(bidCount) == bidCount

\* Math.max((bidCount || 1) - 1, 0)
bidCountAfterWithdraw(bidCount) ==
  LET n == (IF bidCount = Undefined \/ bidCount = 0 THEN 1 ELSE bidCount) - 1
  IN IF n > 0 THEN n ELSE 0

\* The bid submitBid builds from the request.
newBidOf(u, b) ==
  [id |-> uuidv4("bid", Len(bids) - Len(seedBids) + 1), requirementId |-> b.requirementId,
   exporterId |-> u, price |-> b.price, currency |-> b.currency,
   deliveryTime |-> b.deliveryTime, deliveryTimeUnit |-> b.deliveryTimeUnit,
   status |-> "active"]

\* submitBid without its check of the bid deadline.
submitBidResponse_noDeadlineCheck(u, b) ==
  IF ~(b.valid /\ isUUID(b.requirementId)) THEN Reply(400, "validation")
  ELSE IF ~hasRequirement(b.requirementId) THEN Reply(404, "Requirement not found")
  ELSE IF requirementById(b.requirementId).status # "active"
  THEN Reply(400, "Requirement is not accepting bids")
  ELSE IF requirementById(b.requirementId).importerId = u
  THEN Reply(400, "Cannot bid on your own requirement")
  ELSE IF ~validateBidIntegrity(newBidOf(u, b), bids).valid
  THEN Reply(400, validateBidIntegrity(newBidOf(u, b), bids).reason)
  ELSE Reply(201, "Bid submitted successfully")

\* submitBid without its call of validateBidIntegrity.
submitBidResponse_noIntegrityCheck(u, b) ==
  IF ~(b.valid /\ isUUID(b.requirementId)) THEN Reply(400, "validation")
  ELSE IF ~hasRequirement(b.requirementId) THEN Reply(404, "Requirement not found")
  ELSE IF requirementById(b.requirementId).status # "active"
  THEN Reply(400, "Requirement is not accepting bids")
  ELSE IF deadlinePassed(requirementById(b.requirementId))
  THEN Reply(400, "Bid deadline has passed")
  ELSE IF requirementById(b.requirementId).importerId = u
  THEN Reply(400, "Cannot bid on your own requirement")
  ELSE Reply(201, "Bid submitted successfully")

submitBidResponse(u, b) ==
  IF ~(b.valid /\ isUUID(b.requirementId)) THEN Reply(400, "validation")
  ELSE IF ~hasRequirement(b.requirementId) THEN Reply(404, "Requirement not found")
  ELSE IF requirementById(b.requirementId).status # "active"
  THEN Reply(400, "Requirement is not accepting bids")
  ELSE IF deadlinePassed(requirementById(b.requirementId))
  THEN Reply(400, "Bid deadline has passed")
  ELSE IF requirementById(b.requirementId).importerId = u
  THEN Reply(400, "Cannot bid on your own requirement")
  ELSE IF ~validateBidIntegrity(newBidOf(u, b), bids).valid
  THEN Reply(400, validateBidIntegrity(newBidOf(u, b), bids).reason)
  ELSE Reply(201, "Bid submitted successfully")

submitBidHandler(u, b) ==
  /\ Len(bids) - Len(seedBids) < MaxBids
  /\ UNCHANGED <<orders, nextReq, now, suspended, auth>>
  /\ IF submitBidResponse(u, b).status = 201
     THEN /\ bids' = Append(bids, newBidOf(u, b))
          /\ requirements' =
               touchRequirement(b.requirementId,
                 LAMBDA r : [r EXCEPT !.bidCount = bidCountAfterSubmit(@)])
     ELSE UNCHANGED <<requirements, bids>>

submitBid(u, b) == requireRole(u, "exporter") /\ submitBidHandler(u, b)

ownBidIndex(u, id) == findIndex(bids, LAMBDA x : x.id = id /\ x.exporterId = u)

updateBidResponse(u, id, b) ==
  IF ownBidIndex(u, id) = 0 THEN Reply(404, "Bid not found or unauthorized")
  ELSE IF bids[ownBidIndex(u, id)].status # "active"
  THEN Reply(400, "Cannot update inactive bid")
  ELSE IF \/ ~hasRequirement(bids[ownBidIndex(u, id)].requirementId)
          \/ requirementById(bids[ownBidIndex(u, id)].requirementId).status # "active"
  THEN Reply(400, "Requirement is no longer accepting bids")
  ELSE IF deadlinePassed(requirementById(bids[ownBidIndex(u, id)].requirementId))
  THEN Reply(400, "Bid deadline has passed")
  ELSE IF ~(b.valid /\ isUUID(b.requirementId)) THEN Reply(400, "validation")
  ELSE Reply(200, "Bid updated successfully")

\* { ...bid, price: price ? parseFloat(price) : bid.price, ... }
updatedBid(bid, b) ==
  [bid EXCEPT
     !.price = IF b.price # 0 THEN b.price ELSE @,
     !.currency = IF b.currency # "" THEN b.currency ELSE @,
     !.deliveryTime = IF b.deliveryTime # 0 THEN b.deliveryTime ELSE @,
     !.deliveryTimeUnit = IF b.deliveryTimeUnit # "" THEN b.deliveryTimeUnit ELSE @]

updateBid(u, id, b) ==
  /\ requireRole(u, "exporter")
  /\ UNCHANGED <<requirements, orders, nextReq, now, suspended, auth>>
  /\ IF updateBidResponse(u, id, b).status = 200
     THEN bids' = [bids EXCEPT ![ownBidIndex(u, id)] = updatedBid(@, b)]
     ELSE UNCHANGED bids

\* withdrawBid without its check of the bid's status.
withdrawBidResponse_anyStatus(u, id) ==
  IF ownBidIndex(u, id) = 0 THEN Reply(404, "Bid not found or unauthorized")
  ELSE Reply(200, "Bid withdrawn successfully")

withdrawBidResponse(u, id) ==
  IF ownBidIndex(u, id) = 0 THEN Reply(404, "Bid not found or unauthorized")
  ELSE IF bids[ownBidIndex(u, id)].status # "active"
  THEN Reply(400, "Cannot withdraw inactive bid")
  ELSE Reply(200, "Bid withdrawn successfully")

withdrawBid(u, id) ==
  /\ requireRole(u, "exporter")
  /\ UNCHANGED <<orders, nextReq, now, suspended, auth>>
  /\ IF withdrawBidResponse(u, id).status = 200
     THEN /\ bids' = [bids EXCEPT ![ownBidIndex(u, id)].status = "withdrawn"]
          /\ requirements' =
               touchRequirement(bids[ownBidIndex(u, id)].requirementId,
                 LAMBDA r : [r EXCEPT !.bidCount = bidCountAfterWithdraw(@)])
     ELSE UNCHANGED <<requirements, bids>>

bidIndex(id) == findIndex(bids, LAMBDA x : x.id = id)

\* acceptBid without its check of the bid's status.
acceptBidResponse_anyBidStatus(u, id) ==
  IF bidIndex(id) = 0 THEN Reply(404, "Bid not found")
  ELSE IF \/ ~hasRequirement(bids[bidIndex(id)].requirementId)
          \/ requirementById(bids[bidIndex(id)].requirementId).importerId # u
  THEN Reply(403, "Unauthorized to accept this bid")
  ELSE IF requirementById(bids[bidIndex(id)].requirementId).status # "active"
  THEN Reply(400, "Requirement is not active")
  ELSE Reply(200, "Bid accepted successfully")

acceptBidResponse(u, id) ==
  IF bidIndex(id) = 0 THEN Reply(404, "Bid not found")
  ELSE IF \/ ~hasRequirement(bids[bidIndex(id)].requirementId)
          \/ requirementById(bids[bidIndex(id)].requirementId).importerId # u
  THEN Reply(403, "Unauthorized to accept this bid")
  ELSE IF requirementById(bids[bidIndex(id)].requirementId).status # "active"
  THEN Reply(400, "Requirement is not active")
  ELSE IF bids[bidIndex(id)].status # "active" THEN Reply(400, "Bid is not active")
  ELSE Reply(200, "Bid accepted successfully")

\* acceptBid without its rejection of the other active bids.
bidsAfterAccept_onlyTarget(id) ==
  [i \in 1..Len(bids) |->
     IF i = bidIndex(id) THEN [bids[i] EXCEPT !.status = "accepted"] ELSE bids[i]]

\* The bid store after the acceptance of bid id: that bid accepted, then
\* every other active bid on its requirement rejected.
bidsAfterAccept(id) ==
  [i \in 1..Len(bids) |->
     IF i = bidIndex(id)
     THEN [bids[i] EXCEPT !.status = "accepted"]
     ELSE IF /\ bids[i].requirementId = bids[bidIndex(id)].requirementId
             /\ bids[i].id # id
             /\ bids[i].status = "active"
     THEN [bids[i] EXCEPT !.status = "rejected"]
     ELSE bids[i]]

acceptBid(u, id) ==
  /\ requireRole(u, "importer")
  /\ UNCHANGED <<orders, nextReq, now, suspended, auth>>
  /\ IF acceptBidResponse(u, id).status = 200
     THEN /\ bids' = bidsAfterAccept(id)
          /\ requirements' =
               touchRequirement(bids[bidIndex(id)].requirementId,
                 LAMBDA r : [r EXCEPT !.status = "awarded", !.awardedBidId = id])
     ELSE UNCHANGED <<requirements, bids>>

(* ------------------------------- orders ------------------------------- *)
ORDER_PHASES == <<"confirmation", "payment", "production", "inspection", "shipping", "delivery">>
PhaseNames == {ORDER_PHASES[i] : i \in 1..Len(ORDER_PHASES)}

\* ORDER_PHASES.indexOf(phase), 0-based as in the source; -1 when absent.
indexOf(phase) ==
  IF phase \in PhaseNames
  THEN (CHOOSE i \in 1..Len(ORDER_PHASES) : ORDER_PHASES[i] = phase) - 1
  ELSE 0 - 1

\* The phase record createOrderFromBid writes for every phase.
newPhase(status) == [status |-> status, documents |-> <<>>, notes |-> "", updatedBy |-> ""]

\* The order createOrderFromBid builds: the denormalized commercial terms
\* are left out, estimatedDelivery is in days of the clock.
newOrderOf(bid, requirement) ==
  [id |-> uuidv4("ord", Len(orders) + 1), bidId |-> bid.id,
   requirementId |-> requirement.id, exporterId |-> bid.exporterId,
   importerId |-> requirement.importerId,
   estimatedDelivery |->
     now + bid.deliveryTime *
       (IF bid.deliveryTimeUnit = "days" THEN 1
        ELSE IF bid.deliveryTimeUnit = "weeks" THEN 7 ELSE 30),
   currentPhase |-> "confirmation", status |-> "active",
   phases |-> [p \in PhaseNames |->
                 IF p = "confirmation" THEN newPhase("pending") ELSE newPhase("not_started")],
   cancellationReason |-> "", cancelledBy |-> ""]

\* createOrderFromBid finding the bid by its id alone.
acceptedBidIndex_anyStatus(bidId) == findIndex(bids, LAMBDA x : x.id = bidId)

acceptedBidIndex(bidId) ==
  findIndex(bids, LAMBDA x : x.id = bidId /\ x.status = "accepted")

\* createOrderFromBid returns the order or throws; 201 stands for the
\* return, 500 for the throw.
createOrderFromBidResponse(bidId) ==
  IF acceptedBidIndex(bidId) = 0 THEN Reply(500, "Accepted bid not found")
  ELSE IF ~hasRequirement(bids[acceptedBidIndex(bidId)].requirementId)
  THEN Reply(500, "Requirement not found")
  ELSE IF \/ bids[acceptedBidIndex(bidId)].exporterId \notin users
          \/ requirementById(bids[acceptedBidIndex(bidId)].requirementId).importerId \notin users
  THEN Reply(500, "User not found")
  ELSE Reply(201, "order")

createOrderFromBid(bidId) ==
  /\ Len(orders) < MaxOrders
  /\ UNCHANGED <<requirements, bids, nextReq, now, suspended, auth>>
  /\ IF createOrderFromBidResponse(bidId).status = 201
     THEN orders' = Append(orders,
            newOrderOf(bids[acceptedBidIndex(bidId)],
                       requirementById(bids[acceptedBidIndex(bidId)].requirementId)))
     ELSE UNCHANGED orders

\* The request object (req) of POST /orders/from-bid/:bidId: it carries the
\* bid id as req.params.bidId and is itself no identifier, so b.id === req
\* is false for every bid.
requestOf(bidId) == "[request " \o bidId \o "]"

\* router.post('/from-bid/:bidId', authenticateToken, requireRole('importer'),
\* createOrderFromBid): express calls the handler as createOrderFromBid(req,
\* res, next), so the request object is what the function takes for bidId;
\* what it throws is answered by the error middleware of server.js.
postOrderFromBidResponse(u, bidId) == createOrderFromBidResponse(requestOf(bidId))

postOrderFromBid(u, bidId) ==
  /\ requireRole(u, "importer")
  /\ createOrderFromBid(requestOf(bidId))

\* findIndex(o => o.id === id && (o.exporterId === userId || o.importerId === userId))
partyOrderIndex(u, id) ==
  findIndex(orders, LAMBDA o : o.id = id /\ (o.exporterId = u \/ o.importerId = u))

\* The documents of an order, over all its phases.
documentCount(order) ==
  LET RECURSIVE sum(_)
      sum(i) == IF i = 0 THEN 0 ELSE Len(order.phases[ORDER_PHASES[i]].documents) + sum(i - 1)
  IN sum(Len(ORDER_PHASES))

\* Request bodies of PUT /orders/:id/phase: one that orderUpdateValidation
\* rejects, and well-formed ones, bare or carrying notes, a file and a
\* revised estimatedDelivery.  phase "", notes "", estimatedDelivery 0 stand
\* for an absent field, files is the number of uploaded files.
InvalidPhaseUpdate ==
  [valid |-> FALSE, phase |-> "bogus", notes |-> "", files |-> 0, estimatedDelivery |-> 0]
PhaseUpdates ==
  {InvalidPhaseUpdate} \cup
  [valid : {TRUE}, phase : {""} \cup PhaseNames, notes : {""}, files : {0},
   estimatedDelivery : {0}] \cup
  [valid : {TRUE}, phase : {""} \cup PhaseNames, notes : {"note"}, files : {1},
   estimatedDelivery : {99}]

\* updateOrderPhase without its skip check.
updateOrderPhaseResponse_noSkipCheck(u, id, b) ==
  IF ~b.valid THEN Reply(400, "validation")
  ELSE IF partyOrderIndex(u, id) = 0 THEN Reply(404, "Order not found or unauthorized")
  ELSE IF orders[partyOrderIndex(u, id)].status # "active"
  THEN Reply(400, "Cannot update inactive order")
  ELSE IF /\ b.phase # ""
          /\ indexOf(b.phase) < indexOf(orders[partyOrderIndex(u, id)].currentPhase)
  THEN Reply(400, "Cannot move to previous phase")
  ELSE Reply(200, "Order updated successfully")

\* updateOrderPhase without its regression check.
updateOrderPhaseResponse_noRegressionCheck(u, id, b) ==
  IF ~b.valid THEN Reply(400, "validation")
  ELSE IF partyOrderIndex(u, id) = 0 THEN Reply(404, "Order not found or unauthorized")
  ELSE IF orders[partyOrderIndex(u, id)].status # "active"
  THEN Reply(400, "Cannot update inactive order")
  ELSE IF /\ b.phase # ""
          /\ indexOf(b.phase) > indexOf(orders[partyOrderIndex(u, id)].currentPhase) + 1
  THEN Reply(400, "Cannot skip phases")
  ELSE Reply(200, "Order updated successfully")

updateOrderPhaseResponse(u, id, b) ==
  IF ~b.valid THEN Reply(400, "validation")
  ELSE IF partyOrderIndex(u, id) = 0 THEN Reply(404, "Order not found or unauthorized")
  ELSE IF orders[partyOrderIndex(u, id)].status # "active"
  THEN Reply(400, "Cannot update inactive order")
  ELSE IF /\ b.phase # ""
          /\ indexOf(b.phase) < indexOf(orders[partyOrderIndex(u, id)].currentPhase)
  THEN Reply(400, "Cannot move to previous phase")
  ELSE IF /\ b.phase # ""
          /\ indexOf(b.phase) > indexOf(orders[partyOrderIndex(u, id)].currentPhase) + 1
  THEN Reply(400, "Cannot skip phases")
  ELSE Reply(200, "Order updated successfully")

\* if (phase) { complete the current phase; start the new phase }
afterPhaseStep(order, u, phase) ==
  LET completed ==
        IF order.phases[order.currentPhase].status = "pending"
        THEN [order EXCEPT !.phases[order.currentPhase].status = "completed",
                           !.phases[order.currentPhase].updatedBy = u]
        ELSE order
  IN IF indexOf(phase) > indexOf(order.currentPhase)
     THEN [completed EXCEPT !.currentPhase = phase,
                            !.phases[phase].status = "pending",
                            !.phases[phase].updatedBy = u]
     ELSE completed

\* The rest of the handler with a completion check that does not ask for
\* the delivery phase.
afterPhaseNotes_anyPhase(order, u, b) ==
  LET noted ==
        [order EXCEPT
           !.phases[order.currentPhase].notes = IF b.notes # "" THEN b.notes ELSE @,
           !.phases[order.currentPhase].documents =
              @ \o [i \in 1..b.files |-> [uploadedBy |-> u]],
           !.phases[order.currentPhase].updatedBy = u,
           !.estimatedDelivery = IF b.estimatedDelivery # 0 THEN b.estimatedDelivery ELSE @]
  IN IF noted.phases[noted.currentPhase].status = "completed"
     THEN [noted EXCEPT !.status = "completed"]
     ELSE noted

\* The rest of the handler, on the phase that is current after the step:
\* notes, documents, estimatedDelivery, updatedBy, then the completion check.
afterPhaseNotes(order, u, b) ==
  LET noted ==
        [order EXCEPT
           !.phases[order.currentPhase].notes = IF b.notes # "" THEN b.notes ELSE @,
           !.phases[order.currentPhase].documents =
              @ \o [i \in 1..b.files |-> [uploadedBy |-> u]],
           !.phases[order.currentPhase].updatedBy = u,
           !.estimatedDelivery = IF b.estimatedDelivery # 0 THEN b.estimatedDelivery ELSE @]
  IN IF noted.currentPhase = "delivery" /\ noted.phases["delivery"].status = "completed"
     THEN [noted EXCEPT !.status = "completed"]
     ELSE noted

updateOrderPhase(u, id, b) ==
  /\ UNCHANGED <<requirements, bids, nextReq, now, suspended, auth>>
  /\ IF updateOrderPhaseResponse(u, id, b).status = 200
     THEN /\ documentCount(orders[partyOrderIndex(u, id)]) + b.files <= MaxDocs
          /\ orders' =
               [orders EXCEPT ![partyOrderIndex(u, id)] =
                  afterPhaseNotes(
                    IF b.phase # "" THEN afterPhaseStep(@, u, b.phase) ELSE @, u, b)]
     ELSE UNCHANGED orders

\* POST /orders/:id/documents: phase is req.params.phase ("" when the path
\* carries none), files the number of uploaded files.
\* uploadOrderDocuments without its check of the order's status.
uploadOrderDocumentsResponse_anyStatus(u, id, phase, files) ==
  IF phase \notin PhaseNames THEN Reply(400, "Invalid phase")
  ELSE IF partyOrderIndex(u, id) = 0 THEN Reply(404, "Order not found or unauthorized")
  ELSE IF files = 0 THEN Reply(400, "No documents uploaded")
  ELSE Reply(200, "Documents uploaded successfully")

uploadOrderDocumentsResponse(u, id, phase, files) ==
  IF phase \notin PhaseNames THEN Reply(400, "Invalid phase")
  ELSE IF partyOrderIndex(u, id) = 0 THEN Reply(404, "Order not found or unauthorized")
  ELSE IF orders[partyOrderIndex(u, id)].status # "active"
  THEN Reply(400, "Cannot upload documents to inactive order")
  ELSE IF files = 0 THEN Reply(400, "No documents uploaded")
  ELSE Reply(200, "Documents uploaded successfully")

uploadOrderDocuments(u, id, phase, files) ==
  /\ UNCHANGED <<requirements, bids, nextReq, now, suspended, auth>>
  /\ IF uploadOrderDocumentsResponse(u, id, phase, files).status = 200
     THEN /\ documentCount(orders[partyOrderIndex(u, id)]) + files <= MaxDocs
          /\ orders' =
               [orders EXCEPT ![partyOrderIndex(u, id)] =
                  [@ EXCEPT !.phases[phase].documents =
                               @ \o [i \in 1..files |-> [uploadedBy |-> u]],
                            !.phases[phase].updatedBy = u]]
     ELSE UNCHANGED orders

\* POST /:id/documents: the path has no segment for the phase, so the
\* handler reads req.params.phase as undefined, whatever the request says.
paramsPhase == ""

postOrderDocumentsResponse(u, id, files) ==
  uploadOrderDocumentsResponse(u, id, paramsPhase, files)

postOrderDocuments(u, id, files) == uploadOrderDocuments(u, id, paramsPhase, files)

\* cancelOrder with its window one phase longer.
cancelOrderResponse_throughInspection(u, id, reason) ==
  IF partyOrderIndex(u, id) = 0 THEN Reply(404, "Order not found or unauthorized")
  ELSE IF orders[partyOrderIndex(u, id)].status # "active"
  THEN Reply(400, "Cannot cancel inactive order")
  ELSE IF indexOf(orders[partyOrderIndex(u, id)].currentPhase) > 3
  THEN Reply(400, "Cannot cancel order in current phase")
  ELSE Reply(200, "Order cancelled successfully")

cancelOrderResponse(u, id, reason) ==
  IF partyOrderIndex(u, id) = 0 THEN Reply(404, "Order not found or unauthorized")
  ELSE IF orders[partyOrderIndex(u, id)].status # "active"
  THEN Reply(400, "Cannot cancel inactive order")
  ELSE IF indexOf(orders[partyOrderIndex(u, id)].currentPhase) > 2
  THEN Reply(400, "Cannot cancel order in current phase")
  ELSE Reply(200, "Order cancelled successfully")

cancelOrder(u, id, reason) ==
  /\ UNCHANGED <<requirements, bids, nextReq, now, suspended, auth>>
  /\ IF cancelOrderResponse(u, id, reason).status = 200
     THEN orders' =
            [orders EXCEPT ![partyOrderIndex(u, id)] =
               [@ EXCEPT !.status = "cancelled", !.cancellationReason = reason,
                         !.cancelledBy = u]]
     ELSE UNCHANGED orders

\* The clock of new Date().
Tick ==
  now < MaxTime /\ now' = now + 1 /\ UNCHANGED <<requirements, bids, orders, nextReq, suspended, auth>>

(* ----------------------- handlers at their await --------------------- *)
\* updateBid and updateRequirement read the store, check what they read,
\* wait for the validation of the body, and then write.  Requests that
\* arrive while a handler waits are served in between.  A waiting handler
\* keeps the index it found and a reference to the object it read there:
\* held is <<>> while that object is still the one in the store (writes to
\* its fields by withdrawBid, acceptBid, submitBid are seen through the
\* reference), and <<object>> once another handler has put a new object in
\* its place.
MaxSuspended == 2

reference(s, store) == IF s.held = <<>> THEN store[s.index] ELSE s.held[1]

\* store[index] = {...}: the handlers that wait with a reference to the
\* object at index keep that object, as it is now.
afterReplace(waiting, handler, index, old) ==
  [j \in 1..Len(waiting) |->
     IF waiting[j].handler = handler /\ waiting[j].index = index /\ waiting[j].held = <<>>
     THEN [waiting[j] EXCEPT !.held = <<old>>]
     ELSE waiting[j]]

\* updateBid up to its await: the bid is the caller's and active, its
\* requirement active and before its deadline.
updateBidAwaits(u, id) ==
  /\ ownBidIndex(u, id) # 0
  /\ bids[ownBidIndex(u, id)].status = "active"
  /\ hasRequirement(bids[ownBidIndex(u, id)].requirementId)
  /\ requirementById(bids[ownBidIndex(u, id)].requirementId).status = "active"
  /\ ~deadlinePassed(requirementById(bids[ownBidIndex(u, id)].requirementId))

updateBidBegin(u, id, b) ==
  /\ requireRole(u, "exporter")
  /\ Len(suspended) < MaxSuspended
  /\ UNCHANGED <<requirements, bids, orders, nextReq, now, auth>>
  /\ IF updateBidAwaits(u, id)
     THEN suspended' = Append(suspended,
            [handler |-> "updateBid", u |-> u, id |-> id, b |-> b,
             index |-> ownBidIndex(u, id), held |-> <<>>])
     ELSE UNCHANGED suspended

\* updateBid from its await on: the validation result, then the write.
updateBidResume(k) ==
  /\ k \in 1..Len(suspended)
  /\ suspended[k].handler = "updateBid"
  /\ UNCHANGED <<requirements, orders, nextReq, now, auth>>
  /\ LET s == suspended[k]
     IN  IF s.b.valid /\ isUUID(s.b.requirementId)
         THEN /\ bids' = [bids EXCEPT ![s.index] = updatedBid(reference(s, bids), s.b)]
              /\ suspended' =
                   afterReplace(splice(suspended, k), "updateBid", s.index, bids[s.index])
         ELSE /\ UNCHANGED bids
              /\ suspended' = splice(suspended, k)

\* updateRequirement up to its await: the requirement is the caller's and
\* neither closed nor awarded.
updateRequirementAwaits(u, id) ==
  /\ ownRequirementIndex(u, id) # 0
  /\ requirements[ownRequirementIndex(u, id)].status \notin {"closed", "awarded"}

updateRequirementBegin(u, id, b) ==
  /\ requireRole(u, "importer")
  /\ Len(suspended) < MaxSuspended
  /\ UNCHANGED <<requirements, bids, orders, nextReq, now, auth>>
  /\ IF updateRequirementAwaits(u, id)
     THEN suspended' = Append(suspended,
            [handler |-> "updateRequirement", u |-> u, id |-> id, b |-> b,
             index |-> ownRequirementIndex(u, id), held |-> <<>>])
     ELSE UNCHANGED suspended

\* updateRequirement from its await on: the validation result, the checks
\* of the deadlines, then the write.
updateRequirementResume(k) ==
  /\ k \in 1..Len(suspended)
  /\ suspended[k].handler = "updateRequirement"
  /\ UNCHANGED <<bids, orders, nextReq, now, auth>>
  /\ LET s == suspended[k]
     IN  IF /\ s.b.valid
            /\ ~(s.b.bidDeadline # 0 /\ s.b.bidDeadline <= now)
            /\ ~(/\ s.b.deliveryDeadline # 0 /\ s.b.bidDeadline # 0
                 /\ s.b.deliveryDeadline <= s.b.bidDeadline)
         THEN /\ requirements' =
                   [requirements EXCEPT
                      ![s.index] = updatedRequirement(reference(s, requirements), s.b)]
              /\ suspended' =
                   afterReplace(splice(suspended, k), "updateRequirement", s.index,
                                requirements[s.index])
         ELSE /\ UNCHANGED requirements
              /\ suspended' = splice(suspended, k)

(* ------------------------ tokens and sessions ------------------------- *)
\* A JSON web token is its payload and the secret that signed it.  A field a
\* payload does not carry reads as undefined.  The secrets are the defaults
\* of the code (process.env.JWT_SECRET is not set).
JWT_SECRET == "your-super-secret-jwt-key-change-in-production"
sign(payload, secret) == [payload |-> payload, secret |-> secret]
verify(token, secret) == token.secret = secret

\* generateToken of the middleware: the payload names the user under id.
generateToken(user) ==
  sign([id |-> user, userId |-> NoUser, role |-> role(user), iat |-> now], JWT_SECRET)

\* The token register signs by itself: the payload names the user under
\* userId, and the secret is another.
registerToken(user) ==
  sign([id |-> NoUser, userId |-> user, role |-> role(user), iat |-> now], "your-secret-key")

\* authenticateToken: 401 for a token that is not an active session, 403 for
\* one that jwt.verify rejects, else next() with req.user the payload
\* (status 200 and the payload as body here).
authenticateTokenResponse(token) ==
  IF token \notin activeSessions THEN Reply(401, "Invalid or expired token")
  ELSE IF ~verify(token, JWT_SECRET) THEN Reply(403, "Invalid token")
  ELSE Reply(200, token.payload)

\* The request stops in the middleware: an active session whose token
\* jwt.verify rejects is removed, nothing else changes.
stopInMiddleware(token) ==
  /\ activeSessions' =
       IF token \in activeSessions /\ ~verify(token, JWT_SECRET)
       THEN activeSessions \ {token} ELSE activeSessions
  /\ UNCHANGED <<requirements, bids, orders, nextReq, now, suspended, accounts, sessions>>

\* authenticateToken, requireRole(r) and then the handler with req.user.
behind(token, r, handler(_)) ==
  IF /\ authenticateTokenResponse(token).status = 200
     /\ r \in {"", authenticateTokenResponse(token).body.role}
  THEN handler(authenticateTokenResponse(token).body)
  ELSE stopInMiddleware(token)

\* POST /auth/register by someone whose email is user's: 400 when an account
\* has it already.
register(user) ==
  /\ UNCHANGED <<requirements, bids, orders, nextReq, now, suspended, activeSessions>>
  /\ IF user \in accounts
     THEN UNCHANGED <<accounts, sessions>>
     ELSE /\ accounts' = accounts \cup {user}
          /\ sessions' = Append(sessions, [userId |-> user, token |-> registerToken(user)])

\* POST /auth/login: 401 for an unknown email or a wrong password.
login(user, password) ==
  /\ UNCHANGED <<requirements, bids, orders, nextReq, now, suspended, accounts>>
  /\ IF user \in accounts /\ password = "password123"
     THEN /\ activeSessions' = activeSessions \cup {generateToken(user)}
          /\ sessions' = Append(sessions, [userId |-> user, token |-> generateToken(user)])
     ELSE UNCHANGED <<sessions, activeSessions>>

\* sessions.filter(session => session.token !== token)
RECURSIVE filterToken(_, _)
filterToken(arr, token) ==
  IF arr = <<>> THEN <<>>
  ELSE IF Head(arr).token # token THEN <<Head(arr)>> \o filterToken(Tail(arr), token)
  ELSE filterToken(Tail(arr), token)

logoutHandler(token) ==
  /\ sessions' = filterToken(sessions, token)
  /\ activeSessions' = activeSessions \ {token}
  /\ UNCHANGED <<requirements, bids, orders, nextReq, now, suspended, accounts>>

\* POST /auth/logout
logout(token) == behind(token, "", LAMBDA user : logoutHandler(token))

\* POST /requirements, PUT /requirements/:id/close and POST /bids with a
\* token: the handlers act for req.user.userId.
postRequirement(token, b) ==
  behind(token, "importer", LAMBDA user : createRequirementHandler(user.userId, b))
putRequirementClose(token, id) ==
  behind(token, "importer", LAMBDA user : closeRequirementHandler(user.userId, id))
postBid(token, b) ==
  behind(token, "exporter", LAMBDA user : submitBidHandler(user.userId, b))

(* --------------------------- the marketplace -------------------------- *)
\* Requests on requirements and bids, one at a time.  imp-2 is an importer
\* who posts no requirement of their own.
Next ==
  \/ \E u \in {"imp-1"}, b \in RequirementBodies : createRequirement(u, b)
  \/ \E u \in Importers, id \in RequirementIds, b \in RequirementUpdates :
        updateRequirement(u, id, b)
  \/ \E u \in Importers, id \in RequirementIds : closeRequirement(u, id)
  \/ \E u \in Importers, id \in RequirementIds : deleteRequirement(u, id)
  \/ \E u \in Exporters, b \in BidBodies : submitBid(u, b)
  \/ \E u \in Exporters, id \in BidIds, b \in BidUpdates : updateBid(u, id, b)
  \/ \E u \in Exporters, id \in BidIds : withdrawBid(u, id)
  \/ \E u \in Importers, id \in BidIds : acceptBid(u, id)
  \/ Tick

Spec == Init /\ [][Next]_vars

(* ------------------------------ one order ----------------------------- *)
\* The life of one order: imp-1 posts a requirement, exp-1 bids on it, imp-1
\* accepts the bid, an order is made of it, and its two parties and exp-2, a
\* stranger to it, send order requests.
OrderParties == {"exp-1", "exp-2", "imp-1"}
OrderRequirementBody ==
  [valid |-> TRUE, targetPrice |-> 400, currency |-> "USD", bidDeadline |-> 1,
   deliveryDeadline |-> MaxTime + 1]
OrderBidBody ==
  [valid |-> TRUE, requirementId |-> uuidv4("req", 1), price |-> 500, currency |-> "USD",
   deliveryTime |-> 2, deliveryTimeUnit |-> "weeks"]

OrderNext ==
  \/ createRequirement("imp-1", OrderRequirementBody) /\ nextReq = 1
  \/ submitBid("exp-1", OrderBidBody)
  \/ \E id \in BidIds : acceptBid("imp-1", id)
  \/ \E bidId \in BidIds : createOrderFromBid(bidId) /\ orders = <<>>
  \/ \E u \in OrderParties, b \in PhaseUpdates : updateOrderPhase(u, uuidv4("ord", 1), b)
  \/ \E u \in OrderParties, files \in {0, 1} :
        postOrderDocuments(u, uuidv4("ord", 1), files)
  \/ \E u \in OrderParties, reason \in {"", "late"} : cancelOrder(u, uuidv4("ord", 1), reason)

OrderSpec == Init /\ [][OrderNext]_vars

(* ------------------------- concurrent requests ------------------------ *)
\* imp-1 posts a requirement, the exporters bid on it, and requests to
\* update, withdraw and accept arrive while updateBid and updateRequirement
\* handlers wait at their await.  No requirement is deleted here, so the
\* indices the waiting handlers keep stay those of the objects they read.
ConcurrentNext ==
  \/ createRequirement("imp-1", OrderRequirementBody) /\ nextReq = 1
  \/ \E u \in Exporters : submitBid(u, OrderBidBody)
  \/ \E u \in Exporters, id \in BidIds, b \in BidUpdates : updateBidBegin(u, id, b)
  \/ \E k \in 1..MaxSuspended : updateBidResume(k)
  \/ \E u \in Exporters, id \in BidIds : withdrawBid(u, id)
  \/ \E id \in BidIds : acceptBid("imp-1", id)
  \/ \E id \in RequirementIds, b \in RequirementUpdates : updateRequirementBegin("imp-1", id, b)
  \/ \E k \in 1..MaxSuspended : updateRequirementResume(k)

ConcurrentSpec == Init /\ [][ConcurrentNext]_vars

(* ------------------------ logging in and out -------------------------- *)
\* The accounts of this part: the two seeded ones, and two people who
\* register.  The tokens a client can send: those the server can have handed
\* out, and one signed by somebody else.
Registrants == {"exp-1", "imp-1"}
forged == sign([id |-> "imp-1", userId |-> "imp-1", role |-> "importer", iat |-> 0], "guess")
Tokens ==
  {forged} \cup
  {sign([id |-> user, userId |-> NoUser, role |-> role(user), iat |-> t], JWT_SECRET) :
     user \in users, t \in 0..MaxTime} \cup
  {sign([id |-> NoUser, userId |-> user, role |-> role(user), iat |-> t], "your-secret-key") :
     user \in Registrants, t \in 0..MaxTime}

AuthInit ==
  /\ requirements = seedRequirements
  /\ bids = seedBids
  /\ orders = <<>>
  /\ nextReq = 1
  /\ now = 0
  /\ suspended = <<>>
  /\ accounts = {"test-exporter-1", "test-importer-1"}
  /\ sessions = <<>>
  /\ activeSessions = {}

MaxSessions == 3

AuthNext ==
  \/ \E user \in Registrants : register(user) /\ Len(sessions) < MaxSessions
  \/ \E user \in users, password \in {"password123", "guess"} :
        login(user, password) /\ Len(sessions) < MaxSessions
  \/ \E token \in Tokens : logout(token)
  \/ \E token \in Tokens : postRequirement(token, OrderRequirementBody)
  \/ \E token \in Tokens, id \in RequirementIds : putRequirementClose(token, id)
  \/ \E token \in Tokens : postBid(token, OrderBidBody)
  \/ Tick

AuthSpec == AuthInit /\ [][AuthNext]_vars

(* ------------------------- advancing an order ------------------------- *)
\* One order whose parties do nothing but advance it: every request is an
\* updateOrderPhase whose target is the phase that follows the current one,
\* nobody cancels, and the parties keep sending such requests as long as one
\* can be sent.
\* ORDER_PHASES[currentPhaseIndex + 1] (sequences count from 1, indexOf from
\* 0), "" after the last phase.
followingPhase(order) ==
  IF indexOf(order.currentPhase) + 1 < Len(ORDER_PHASES)
  THEN ORDER_PHASES[indexOf(order.currentPhase) + 2] ELSE ""

advanceOrder(u, id) ==
  /\ partyOrderIndex(u, id) # 0
  /\ \E b \in PhaseUpdates :
        /\ b.valid
        /\ b.phase # ""
        /\ b.phase = followingPhase(orders[partyOrderIndex(u, id)])
        /\ updateOrderPhase(u, id, b)

AdvanceNext ==
  \/ createRequirement("imp-1", OrderRequirementBody) /\ nextReq = 1
  \/ submitBid("exp-1", OrderBidBody)
  \/ \E id \in BidIds : acceptBid("imp-1", id)
  \/ \E bidId \in BidIds : createOrderFromBid(bidId) /\ orders = <<>>
  \/ \E u \in OrderParties : advanceOrder(u, uuidv4("ord", 1))

AdvanceSpec ==
  /\ Init
  /\ [][AdvanceNext]_vars
  /\ WF_vars(\E u \in OrderParties : advanceOrder(u, uuidv4("ord", 1)))

(* --------------------------- making orders ---------------------------- *)
\* Orders made of bids: imp-1 posts requirements, the exporters bid and
\* withdraw, imp-1 accepts, orders are made of any bid id and cancelled.
CreateOrderBidBodies ==
  [valid : {TRUE}, requirementId : RequirementIds, price : {500}, currency : {"USD"},
   deliveryTime : {2}, deliveryTimeUnit : {"weeks"}]

CreateOrderNext ==
  \/ createRequirement("imp-1", OrderRequirementBody)
  \/ \E u \in Exporters, b \in CreateOrderBidBodies : submitBid(u, b)
  \/ \E u \in Exporters, id \in BidIds : withdrawBid(u, id)
  \/ \E id \in BidIds : acceptBid("imp-1", id)
  \/ \E bidId \in BidIds \cup {"no-such-bid"} : createOrderFromBid(bidId)
  \/ \E u \in Importers, bidId \in BidIds : postOrderFromBid(u, bidId)
  \/ \E u \in OrderParties, id \in OrderIds : cancelOrder(u, id, "late")

CreateOrderSpec == Init /\ [][CreateOrderNext]_vars

(* ------------------------ requirement statuses ------------------------ *)
\* The statuses of a requirement: imp-1 posts requirements, updates them
\* with a status in the body (updateRequirement stores whatever string the
\* body carries) and closes them, the exporters bid and withdraw, imp-1
\* accepts.
StatusUpdates ==
  [valid : {TRUE}, status : {"active", "closed", "awarded", "paused"}, bidDeadline : {0},
   deliveryDeadline : {0}, targetPrice : {0}, currency : {""}]

StatusNext ==
  \/ createRequirement("imp-1", OrderRequirementBody)
  \/ \E id \in RequirementIds, b \in StatusUpdates : updateRequirement("imp-1", id, b)
  \/ \E id \in RequirementIds : closeRequirement("imp-1", id)
  \/ \E u \in Exporters, b \in CreateOrderBidBodies : submitBid(u, b)
  \/ \E u \in Exporters, id \in BidIds : withdrawBid(u, id)
  \/ \E id \in BidIds : acceptBid("imp-1", id)
  \/ Tick

StatusSpec == Init /\ [][StatusNext]_vars

(* --------------------------- the price rule --------------------------- *)
\* validateBidIntegrity on prices around a tenth of the target: imp-1 posts
\* a requirement with or without a target price (0 is the absent one), in
\* one of three currencies, and the exporters bid on it.
TargetPrices == {0, 300, 400}
Prices == {24, 30, 33, 39, 40, 41, 44}
PriceCurrencies == {"USD", "EUR", "GBP"}

PriceRequirementBodies ==
  [valid : {TRUE}, targetPrice : TargetPrices, currency : PriceCurrencies,
   bidDeadline : {1}, deliveryDeadline : {MaxTime + 1}]
PriceBidBodies ==
  [valid : {TRUE}, requirementId : RequirementIds, price : Prices, currency : PriceCurrencies,
   deliveryTime : {2}, deliveryTimeUnit : {"weeks"}]

PriceNext ==
  \/ \E b \in PriceRequirementBodies : createRequirement("imp-1", b)
  \/ \E u \in Exporters, b \in PriceBidBodies : submitBid(u, b)

PriceSpec == Init /\ [][PriceNext]_vars

(* ------------------------------ the ranking --------------------------- *)
\* rankBids on the active bids of one requirement: each exporter account has
\* made one of a few offers on the requirement of imp-1 or none, and anyone
\* asks for the ranked list.
RankExporters == <<"exp-1", "exp-2", "test-exporter-1">>
RankOffers ==
  { [price |-> 500, currency |-> "USD", deliveryTime |-> 2, deliveryTimeUnit |-> "weeks"],
    [price |-> 400, currency |-> "EUR", deliveryTime |-> 1, deliveryTimeUnit |-> "months"],
    [price |-> 45000, currency |-> "INR", deliveryTime |-> 10, deliveryTimeUnit |-> "days"],
    [price |-> 400, currency |-> "GBP", deliveryTime |-> 14, deliveryTimeUnit |-> "days"],
    [price |-> 400, currency |-> "GBP", deliveryTime |-> 10, deliveryTimeUnit |-> "days"] }

RankInit ==
  \E n \in 0..Len(RankExporters) : \E offers \in [1..n -> RankOffers] :
     /\ requirements = Append(seedRequirements,
           [id |-> uuidv4("req", 1), importerId |-> "imp-1", targetPrice |-> 400,
            currency |-> "USD", bidDeadline |-> 1, status |-> "active",
            bidCount |-> n, awardedBidId |-> ""])
     /\ bids = seedBids \o
           [k \in 1..n |->
              [id |-> uuidv4("bid", k), requirementId |-> uuidv4("req", 1),
               exporterId |-> RankExporters[k], price |-> offers[k].price,
               currency |-> offers[k].currency, deliveryTime |-> offers[k].deliveryTime,
               deliveryTimeUnit |-> offers[k].deliveryTimeUnit, status |-> "active"]]
     /\ orders = <<>>
     /\ nextReq = 2
     /\ now = 0
     /\ suspended = <<>>
     /\ accounts = users
     /\ sessions = <<>>
     /\ activeSessions = {}

RankNext == \E u \in users \cup {NoUser}, id \in RequirementIds : getBidsForRequirement(u, id)

RankSpec == RankInit /\ [][RankNext]_vars

(* ------------------------- properties: bids --------------------------- *)
\* The bids (indices of the store) on requirement r whose status is in ss,
\* and those of them that exporter e made.
bidsOn(r, ss) == {i \in 1..Len(bids) : bids[i].requirementId = r /\ bids[i].status \in ss}
bidsOf(e, r, ss) == {i \in bidsOn(r, ss) : bids[i].exporterId = e}
AllExporters == {u \in users : role(u) = "exporter"}

\* A requirement that takes bids now: it exists, is active, and its bid
\* deadline has not passed.
takesBids(r) ==
  /\ hasRequirement(r)
  /\ requirementById(r).status = "active"
  /\ ~deadlinePassed(requirementById(r))

duplicateReason == "Exporter has already submitted a bid for this requirement"

\* C1: in every reachable state of the marketplace (any sequence of
\* submitBid, updateBid, withdrawBid, acceptBid, createRequirement,
\* updateRequirement, closeRequirement, deleteRequirement), every
\* requirement has at most one bid whose status is accepted.
C1_AtMostOneAccepted ==
  \A r \in RequirementIds : Cardinality(bidsOn(r, {"accepted"})) <= 1

\* A requirement with an accepted bid among two bids, after its importer
\* has accepted.
C1_Witness ==
  \E r \in RequirementIds :
     /\ Cardinality(bidsOn(r, {"accepted"})) = 1
     /\ Cardinality(bidsOn(r, {"active", "accepted", "rejected", "withdrawn"})) >= 2

\* The effect C2 states for a successful acceptBid of bid id.
acceptEffect(id) ==
  LET r == bids[bidIndex(id)].requirementId
  IN /\ Len(bids') = Len(bids)
     /\ \A i \in 1..Len(bids) :
          /\ bids'[i] = [bids[i] EXCEPT !.status = bids'[i].status]
          /\ bids'[i].status =
               IF bids[i].id = id THEN "accepted"
               ELSE IF bids[i].requirementId = r /\ bids[i].status = "active" THEN "rejected"
               ELSE bids[i].status
     /\ Len(requirements') = Len(requirements)
     /\ \A k \in 1..Len(requirements) :
          requirements'[k] =
            IF requirements[k].id = r
            THEN [requirements[k] EXCEPT !.status = "awarded", !.awardedBidId = id]
            ELSE requirements[k]

C3_OneLiveBidPerPair ==
  \A e \in AllExporters, r \in RequirementIds :
     Cardinality(bidsOf(e, r, {"active", "accepted"})) <= 1

\* An exporter with an active bid on a requirement that still takes bids: a
\* second submission would reach validateBidIntegrity.
C3_Witness ==
  \E e \in AllExporters, r \in RequirementIds :
     takesBids(r) /\ Cardinality(bidsOf(e, r, {"active"})) = 1

\* C7: on an active requirement before its bid deadline, a well-formed
\* submission by an exporter whose bids on it are all withdrawn or rejected
\* (at least one: the exporter bid and withdrew) succeeds.
C7_ResubmitSucceeds ==
  \A u \in Exporters, b \in BidBodies :
     (/\ b.valid
      /\ takesBids(b.requirementId)
      /\ ~suspiciouslyLow(newBidOf(u, b))
      /\ bidsOf(u, b.requirementId, {"withdrawn", "rejected"}) # {}
      /\ bidsOf(u, b.requirementId, {"active", "accepted"}) = {})
     => submitBidResponse(u, b).status = 201

\* C8 as stated: a well-formed submitBid by an exporter with an active bid on
\* the requirement is answered with the integrity error.
C8_AlwaysIntegrityError ==
  \A u \in Exporters, b \in BidBodies :
     (b.valid /\ bidsOf(u, b.requirementId, {"active"}) # {})
     => submitBidResponse(u, b) = Reply(400, duplicateReason)

\* C8, amended: a well-formed submitBid by an exporter with an active bid on
\* a requirement that still takes bids is answered with the integrity error;
\* and any submitBid by an exporter with an active bid on the requirement
\* fails and leaves the bid store and the requirement (its bidCount) unchanged.
C8_DuplicateRejected ==
  /\ [](\A u \in Exporters, b \in BidBodies :
          (bidsOf(u, b.requirementId, {"active"}) # {})
          => /\ submitBidResponse(u, b).status \in {400, 404}
             /\ (b.valid /\ takesBids(b.requirementId))
                => submitBidResponse(u, b) = Reply(400, duplicateReason))
  /\ [][(bids' = bids /\ requirements' = requirements)
          \/ \A u \in Exporters, b \in BidBodies :
                ~(bidsOf(u, b.requirementId, {"active"}) # {} /\ submitBid(u, b))]_vars

\* An exporter with an active bid on a requirement that still takes bids,
\* while the store has room for the second bid.
C8_Witness ==
  \E u \in Exporters, r \in RequirementIds :
     /\ takesBids(r)
     /\ bidsOf(u, r, {"active"}) # {}
     /\ requirementById(r).bidCount >= 1
     /\ Len(bids) - Len(seedBids) < MaxBids

(* ------------------------ properties: orders -------------------------- *)
isParty(u, o) == o.exporterId = u \/ o.importerId = u

\* A body whose target phase is below the current phase of order o, or more
\* than one phase above it.
offTarget(o, b) ==
  /\ b.valid
  /\ b.phase # ""
  /\ \/ indexOf(b.phase) < indexOf(o.currentPhase)
     \/ indexOf(b.phase) > indexOf(o.currentPhase) + 1

\* C4: every active order has exactly one pending phase, that phase is
\* currentPhase, every phase before it is completed and every phase after
\* it is not_started.
C4_OnePendingPhase ==
  \A i \in 1..Len(orders) :
     orders[i].status = "active" =>
       \A p \in PhaseNames :
          orders[i].phases[p].status =
            IF indexOf(p) < indexOf(orders[i].currentPhase) THEN "completed"
            ELSE IF p = orders[i].currentPhase THEN "pending"
            ELSE "not_started"

\* C5: from one state to the next the index of an order's currentPhase
\* never decreases and increases by at most 1.
C5_PhaseIndexMonotone ==
  [][\A i \in 1..Len(orders) :
       /\ Len(orders') >= i
       /\ orders'[i].id = orders[i].id
       /\ indexOf(orders'[i].currentPhase) - indexOf(orders[i].currentPhase) \in {0, 1}]_vars

\* An order that has gone through every phase, one at a time.
C5_Witness ==
  \E i \in 1..Len(orders) : orders[i].currentPhase = "delivery"

\* C6: updateOrderPhase with a target phase below the current phase or more
\* than one phase above it is answered with an error, and no step that
\* changes the order store is such a request, whatever notes, documents and
\* estimatedDelivery it carries: the whole order is as before.
C6_OffTargetRejected ==
  /\ [](\A i \in 1..Len(orders), b \in PhaseUpdates :
          offTarget(orders[i], b) =>
             \A u \in OrderParties :
                updateOrderPhaseResponse(u, orders[i].id, b).status \in {400, 404})
  /\ [][orders' = orders
          \/ \A i \in 1..Len(orders), b \in PhaseUpdates :
                offTarget(orders[i], b) =>
                   \A u \in OrderParties : ~updateOrderPhase(u, orders[i].id, b)]_vars

\* An active order in production: confirmation is a target below it,
\* shipping one that skips inspection, and the request may carry a document.
C6_Witness ==
  \E i \in 1..Len(orders) :
     /\ orders[i].status = "active"
     /\ orders[i].currentPhase = "production"
     /\ documentCount(orders[i]) < MaxDocs

\* The effect C9 states for a successful cancelOrder of order i by u.
cancelEffect(i, u, reason) ==
  /\ Len(orders') = Len(orders)
  /\ orders'[i] = [orders[i] EXCEPT !.status = "cancelled", !.cancelledBy = u,
                                    !.cancellationReason = reason]
  /\ orders'[i].phases = orders[i].phases
  /\ orders'[i].currentPhase = orders[i].currentPhase

\* C9: cancelOrder by a party of an active order succeeds exactly when the
\* order's currentPhase is confirmation, payment or production, and then the
\* order is cancelled with cancelledBy and the reason recorded and its phase
\* records unchanged; in inspection, shipping or delivery it is answered with
\* an error and the order store is unchanged.
C9_CancelWindow ==
  /\ [](\A i \in 1..Len(orders) :
          orders[i].status = "active" =>
             \A u \in {orders[i].exporterId, orders[i].importerId}, reason \in {"", "late"} :
                cancelOrderResponse(u, orders[i].id, reason).status =
                  IF orders[i].currentPhase \in {"confirmation", "payment", "production"}
                  THEN 200 ELSE 400)
  /\ [][\A i \in 1..Len(orders) :
          orders[i].status = "active" =>
             \A u \in {orders[i].exporterId, orders[i].importerId}, reason \in {"", "late"} :
                cancelOrder(u, orders[i].id, reason) =>
                   IF orders[i].currentPhase \in {"confirmation", "payment", "production"}
                   THEN cancelEffect(i, u, reason)
                   ELSE orders' = orders]_vars

\* An order cancelled in production by one of its parties, for a reason.
C9_Witness ==
  \E i \in 1..Len(orders) :
     /\ orders[i].status = "cancelled"
     /\ orders[i].currentPhase = "production"
     /\ isParty(orders[i].cancelledBy, orders[i])
     /\ orders[i].cancellationReason = "late"

\* C10: createOrderFromBid of a bid id that no bid has, or of a bid that is
\* active, rejected or withdrawn, fails, and the step adds no order.
C10_OnlyAcceptedBids ==
  /\ [](\A bidId \in BidIds \cup {"no-such-bid"} :
          (bidIndex(bidId) = 0 \/ bids[bidIndex(bidId)].status \in {"active", "rejected", "withdrawn"})
          => createOrderFromBidResponse(bidId).status = 500)
  /\ [][orders' = orders
          \/ \A bidId \in BidIds \cup {"no-such-bid"} :
                ~(/\ (bidIndex(bidId) = 0
                        \/ bids[bidIndex(bidId)].status \in {"active", "rejected", "withdrawn"})
                  /\ createOrderFromBid(bidId))]_vars

\* A rejected bid beside the accepted one of which an order was made, while
\* the order store has room.
C10_Witness ==
  /\ \E i \in 1..Len(bids) : bids[i].status = "rejected"
  /\ \E i \in 1..Len(bids), k \in 1..Len(orders) :
        bids[i].status = "accepted" /\ orders[k].bidId = bids[i].id
  /\ Len(orders) < MaxOrders

(* --------------------- properties: making orders ---------------------- *)
\* The orders (indices of the store) made of bid bidId.
ordersOf(bidId) == {k \in 1..Len(orders) : orders[k].bidId = bidId}

\* A bid of which createOrderFromBid makes an order: it is accepted, its
\* requirement is in the store and both its users are.
orderable(i) ==
  /\ bids[i].status = "accepted"
  /\ hasRequirement(bids[i].requirementId)
  /\ bids[i].exporterId \in users
  /\ requirementById(bids[i].requirementId).importerId \in users

\* C11: in every reachable state at most one order exists per bid id (a
\* second createOrderFromBid of a bid that has an order adds none).
C11_OneOrderPerBid ==
  \A i \in 1..Len(bids) : Cardinality(ordersOf(bids[i].id)) <= 1

\* C12: POST /from-bid/:bidId by an importer with the id of an accepted bid
\* whose requirement and users exist succeeds (it adds one order, active, in
\* confirmation, with the bid's exporter and the requirement's importer).
C12_RouteMakesOrder ==
  \A i \in 1..Len(bids), u \in Importers :
     orderable(i) => postOrderFromBidResponse(u, bids[i].id).status = 201

(* ------------------- properties: the life of an order ----------------- *)
\* C13: once an order is completed or cancelled, every updateOrderPhase,
\* uploadOrderDocuments and cancelOrder request on it is answered with an
\* error, and no step changes any field of the order.
C13_ClosedOrderImmutable ==
  /\ [](\A i \in 1..Len(orders) :
          orders[i].status \in {"completed", "cancelled"} =>
             \A u \in OrderParties :
                /\ \A b \in PhaseUpdates :
                     updateOrderPhaseResponse(u, orders[i].id, b).status \in {400, 404}
                /\ \A phase \in {""} \cup PhaseNames, files \in {0, 1} :
                     uploadOrderDocumentsResponse(u, orders[i].id, phase, files).status
                       \in {400, 404}
                /\ \A reason \in {"", "late"} :
                     cancelOrderResponse(u, orders[i].id, reason).status \in {400, 404})
  /\ [][\A i \in 1..Len(orders) :
          orders[i].status \in {"completed", "cancelled"} =>
             Len(orders') >= i /\ orders'[i] = orders[i]]_vars

\* A completed order with room for one more document.
C13_Witness ==
  \E i \in 1..Len(orders) :
     orders[i].status = "completed" /\ documentCount(orders[i]) < MaxDocs

(* --------------------- properties: status machines -------------------- *)
\* C14: a bid's status changes only from active, to withdrawn in a
\* withdrawBid of its exporter, to accepted or rejected in an acceptBid; the
\* status of an accepted, rejected or withdrawn bid never changes, and no bid
\* leaves the store.
C14_BidStatusMachine ==
  [][\A i \in 1..Len(bids) :
       /\ Len(bids') >= i
       /\ bids'[i].id = bids[i].id
       /\ bids'[i].status # bids[i].status =>
            /\ bids[i].status = "active"
            /\ \/ /\ bids'[i].status = "withdrawn"
                  /\ withdrawBid(bids[i].exporterId, bids[i].id)
               \/ /\ bids'[i].status \in {"accepted", "rejected"}
                  /\ \E u \in Importers, id \in BidIds : acceptBid(u, id)]_vars

\* A withdrawn bid beside an accepted one.
C14_Witness ==
  /\ \E i \in 1..Len(bids) : bids[i].status = "withdrawn"
  /\ \E i \in 1..Len(bids) : bids[i].status = "accepted"

\* C15: a requirement's status changes only from active, and only to closed
\* or awarded: the status of a closed or awarded requirement never changes
\* and no requirement gets a status outside {active, closed, awarded}.
C15_RequirementStatusMachine ==
  [][\A k \in 1..Len(requirements), j \in 1..Len(requirements') :
       (requirements'[j].id = requirements[k].id
          /\ requirements'[j].status # requirements[k].status)
       => /\ requirements[k].status = "active"
          /\ requirements'[j].status \in {"closed", "awarded"}]_vars

\* C16: in every reachable state a requirement that is awarded has an
\* awardedBidId that names an accepted bid on that requirement.
C16_AwardedHasAcceptedBid ==
  \A k \in 1..Len(requirements) :
     requirements[k].status = "awarded" =>
        \E i \in 1..Len(bids) :
           /\ bids[i].id = requirements[k].awardedBidId
           /\ bids[i].requirementId = requirements[k].id
           /\ bids[i].status = "accepted"

(* ---------------------- properties: the price rule -------------------- *)
\* the rate table in ten-thousandths (unknown code: 1).
rateTenThousandths(currency) ==
  CASE currency = "USD" -> 10000
    [] currency = "EUR" -> 11000
    [] currency = "INR" -> 120
    [] currency = "GBP" -> 12500
    [] currency = "JPY" -> 67
    [] currency = "CNY" -> 1400
    [] OTHER -> 10000

\* price * rate(bid currency) < 0.1 * targetPrice * rate(requirement currency)
belowTenth(newBid, r) ==
  10 * newBid.price * rateTenThousandths(newBid.currency)
     < r.targetPrice * rateTenThousandths(r.currency)

\* C17: a candidate bid that passes the duplicate-exporter rule is rejected
\* as suspiciously low exactly when its requirement has a target price and
\* price * rate < 0.1 * targetPrice * rate; a bid at exactly a tenth of the
\* target, or on a requirement without target price, is not rejected.
C17_SuspiciousPriceRule ==
  \A u \in Exporters, b \in PriceBidBodies :
     validateBidIntegrity(newBidOf(u, b), bids).reason # duplicateReason =>
        (validateBidIntegrity(newBidOf(u, b), bids).reason = "Bid price is suspiciously low"
           <=> /\ hasRequirement(b.requirementId)
               /\ requirementById(b.requirementId).targetPrice # 0
               /\ belowTenth(newBidOf(u, b), requirementById(b.requirementId)))

(* ------------------------ properties: the ranking --------------------- *)
usd(bid) == convertToUSD(amount(bid.price), bid.currency)
days(bid) == convertToDays(bid.deliveryTime, bid.deliveryTimeUnit)

\* C18: whatever the reliability scores, rankBids returns a permutation of
\* its input in which the USD price of adjacent bids is non-decreasing and,
\* where the USD prices are equal, the delivery days are non-decreasing;
\* 5 USD, 4 EUR, 450 INR rank as 4 EUR, 5 USD, 450 INR; and the rank that
\* getBidsForRequirement gives a bid is its 1-based position in that order.
C18_RankBidsSorted ==
  \A r \in RequirementIds, tie \in Ties :
     LET input  == filterActive(bids, r)
         ranked == rankBids(input, tie)
     IN  /\ Len(ranked) = Len(input)
         /\ \A i \in 1..Len(input) :
               Cardinality({j \in 1..Len(ranked) : ranked[j] = input[i]})
                 = Cardinality({j \in 1..Len(input) : input[j] = input[i]})
         /\ \A i \in 1..(Len(ranked) - 1) :
               /\ ~lessThan(usd(ranked[i + 1]), usd(ranked[i]))
               /\ usd(ranked[i]) = usd(ranked[i + 1]) => days(ranked[i]) <= days(ranked[i + 1])
         /\ [i \in 1..Len(input) |-> <<input[i].price, input[i].currency>>]
               = << <<500, "USD">>, <<400, "EUR">>, <<45000, "INR">> >>
            => [i \in 1..Len(ranked) |-> ranked[i].currency] = <<"EUR", "USD", "INR">>
         /\ \A u \in users :
               LET response == getBidsForRequirementResponse(u, r, tie)
               IN  response.status = 200 =>
                      /\ Len(response.body) = Len(ranked)
                      /\ \A i \in 1..Len(ranked) :
                            /\ response.body[i].rank = i
                            /\ response.body[i].bid.id = ranked[i].id

\* Bids of 5 USD, 4 EUR and 450 INR are the active bids of a requirement.
C18_Witness ==
  \E r \in RequirementIds :
     [i \in 1..Len(filterActive(bids, r)) |->
        <<filterActive(bids, r)[i].price, filterActive(bids, r)[i].currency>>]
       = << <<500, "USD">>, <<400, "EUR">>, <<45000, "INR">> >>

(* -------------------- properties: completing an order ----------------- *)
\* C19: an order with status completed has currentPhase delivery and all six
\* phases completed, and an order's status becomes completed only in a step of
\* updateOrderPhase on it.
C19_CompletedAtDelivery ==
  /\ [](\A i \in 1..Len(orders) :
          orders[i].status = "completed" =>
             /\ orders[i].currentPhase = "delivery"
             /\ \A p \in PhaseNames : orders[i].phases[p].status = "completed")
  /\ [][\A i \in 1..Len(orders) :
          (orders[i].status # "completed" /\ Len(orders') >= i
             /\ orders'[i].status = "completed")
          => \E u \in OrderParties, b \in PhaseUpdates : updateOrderPhase(u, orders[i].id, b)]_vars

\* An order has been completed by one of its parties.
C19_Witness ==
  \E i \in 1..Len(orders) :
     /\ orders[i].status = "completed"
     /\ orders[i].phases["delivery"].updatedBy \in {orders[i].exporterId, orders[i].importerId}

\* C20: with no cancelOrder and the parties advancing an active order to the
\* phase that follows the current one for as long as they can, the order
\* eventually has the status completed.
C20_AdvancingCompletes ==
  (orders # <<>> /\ orders[1].status = "active") ~> (orders # <<>> /\ orders[1].status = "completed")

(* ----------------------- properties: failed requests ------------------ *)
bidCounts == [k \in 1..Len(requirements) |-> requirements[k].bidCount]

\* C21: a submitBid on a missing requirement, on one that is not active or
\* whose bid deadline has passed, by the requirement's importer, or of a bid
\* that fails the integrity check, is answered with an error, and a step of a
\* submitBid so answered leaves the bid store and every bidCount as they
\* were; a step of a successful submitBid appends one bid, with status active,
\* and raises the bidCount of its requirement, and of no other, by 1.
C21_SubmitBidAllOrNothing ==
  /\ [](\A u \in users, b \in BidBodies :
          (\/ ~hasRequirement(b.requirementId)
           \/ requirementById(b.requirementId).status # "active"
           \/ deadlinePassed(requirementById(b.requirementId))
           \/ requirementById(b.requirementId).importerId = u
           \/ ~validateBidIntegrity(newBidOf(u, b), bids).valid)
          => submitBidResponse(u, b).status \in {400, 404})
  /\ [][\A u \in Exporters, b \in BidBodies :
          submitBid(u, b) =>
             IF submitBidResponse(u, b).status = 201
             THEN /\ Len(bids') = Len(bids) + 1
                  /\ SubSeq(bids', 1, Len(bids)) = bids
                  /\ bids'[Len(bids')].status = "active"
                  /\ bids'[Len(bids')].requirementId = b.requirementId
                  /\ Len(requirements') = Len(requirements)
                  /\ \A k \in 1..Len(requirements) :
                        requirements'[k].bidCount =
                          IF requirements[k].id = b.requirementId
                          THEN requirements[k].bidCount + 1
                          ELSE requirements[k].bidCount
             ELSE bids' = bids /\ bidCounts' = bidCounts]_vars

\* A bid has been counted on a requirement whose bid deadline has passed
\* since.
C21_Witness ==
  \E k \in 1..Len(requirements) :
     /\ requirements[k].bidCount = 1
     /\ deadlinePassed(requirements[k])
     /\ bidsOn(requirements[k].id, {"active"}) # {}

\* C22: acceptBid by anyone but the importer of the bid's requirement, on a
\* requirement that is not active or on a bid that is not active (an accepted
\* one among them) is answered with an error, and a step of an acceptBid so
\* answered leaves every bid and every requirement as they were.
C22_AcceptBidFailsCleanly ==
  /\ [](\A i \in 1..Len(bids), u \in Importers :
          (\/ ~hasRequirement(bids[i].requirementId)
           \/ requirementById(bids[i].requirementId).importerId # u
           \/ requirementById(bids[i].requirementId).status # "active"
           \/ bids[i].status # "active")
          => acceptBidResponse(u, bids[i].id).status \in {400, 403})
  /\ [][\A id \in BidIds, u \in Importers :
          (acceptBidResponse(u, id).status # 200 /\ acceptBid(u, id))
          => bids' = bids /\ requirements' = requirements]_vars

\* An accepted bid whose importer asks to accept it again.
C22_Witness ==
  /\ \E i \in 1..Len(bids) :
        /\ bids[i].status = "accepted"
        /\ \E u \in Importers :
              /\ requirementById(bids[i].requirementId).importerId = u
              /\ acceptBidResponse(u, bids[i].id).status = 400

entryOf(u, store, r, id) ==
  LET shown == shownTo(u, filterActive(store, r))
  IN  shown[CHOOSE j \in 1..Len(shown) : shown[j].id = id]

\* C25: the entry an exporter is shown for an active bid of another exporter
\* is the same in every store that differs from this one only in who, other
\* than the caller, owns that bid.
C25_OthersBidEntry ==
  \A u \in AllExporters, i \in 1..Len(bids) :
     (bids[i].status = "active" /\ bids[i].exporterId # u) =>
        \A e \in AllExporters \ {u} :
           entryOf(u, [bids EXCEPT ![i].exporterId = e], bids[i].requirementId, bids[i].id)
             = entryOf(u, bids, bids[i].requirementId, bids[i].id)

(* ------------------- properties: deleting a requirement --------------- *)
\* C28: every stored bid's requirementId names a requirement in the store.
C28_BidsNameRequirements ==
  \A i \in 1..Len(bids) : hasRequirement(bids[i].requirementId)

(* ------------------- properties: concurrent requests ------------------ *)
\* C26: with handlers suspended at their await and other requests served in
\* between, no step changes the status or the price of a bid that is
\* withdrawn, rejected or accepted, and a step in which updateBid writes
\* leaves the status of every bid as it was.
C26_UpdateBidWritesActiveOnly ==
  [][\A i \in 1..Len(bids) :
       /\ bids[i].status \in {"withdrawn", "rejected", "accepted"} =>
            /\ bids'[i].status = bids[i].status
            /\ bids'[i].price = bids[i].price
       /\ (\E k \in 1..Len(suspended) : updateBidResume(k)) =>
            bids'[i].status = bids[i].status]_vars

\* C27: with updateRequirement suspended at its await and other requests
\* served in between, an awarded requirement does not become active and no
\* requirement has two accepted bids.
C27_AwardedStaysAwarded ==
  /\ [](\A k \in 1..Len(requirements) :
          Cardinality(bidsOn(requirements[k].id, {"accepted"})) <= 1)
  /\ [][\A k \in 1..Len(requirements) :
          requirements[k].status = "awarded" => requirements'[k].status # "active"]_vars

(* --------------------- properties: who is acting ---------------------- *)
\* C29: the principal id the handlers read from a token that login handed
\* out is the id of the user who logged in (so the handlers never see two
\* users who are logged in as the same principal), and a bid stored by
\* submitBid behind such a token has that user's id as exporterId.
C29_PrincipalIsLoggedInUser ==
  /\ [](\A k \in 1..Len(sessions) :
          authenticateTokenResponse(sessions[k].token).status = 200 =>
             authenticateTokenResponse(sessions[k].token).body.userId = sessions[k].userId)
  /\ [][\A k \in 1..Len(sessions) :
          (postBid(sessions[k].token, OrderBidBody) /\ Len(bids') > Len(bids)) =>
             bids'[Len(bids')].exporterId = sessions[k].userId]_vars

\* C30: authenticateToken lets a token pass exactly when a register or a
\* login handed it out and no logout has taken it back since.
C30_AcceptedIffHandedOut ==
  \A token \in Tokens :
     authenticateTokenResponse(token).status = 200
       <=> \E k \in 1..Len(sessions) : sessions[k].token = token
====
